---- MODULE Spec2Model ----
(***************************************************************************)
(* The bounded evaluation-process registry (EvaluationManager) and the     *)
(* run action that spawns, registers and awaits evaluation child           *)
(* processes.                                                              *)
(*                                                                         *)
(* A process handle stands for a pair (id, g): the g-th process that is    *)
(* alive at one time and was passed to register under the id.  The id is   *)
(* what the closures created by that register call (timeout callback,      *)
(* close listener) captured, and the timeout armed by the call is the      *)
(* timer of the handle.  A handle whose process has closed and whose       *)
(* timer is no longer armed is unreachable from the program and is reused. *)
(***************************************************************************)
EXTENDS Integers, FiniteSets, Sequences, TLC

\* ------------------------------------------------------------------ bounds
\* how many live processes may at a time be no entry of the registry
MaxLoose == 1
\* how many stderr chunks a child delivers
MaxChunks == 1

\* --------------------------------------------------------------- constants
maxConcurrentEvaluations == 5

Ids == 1..(maxConcurrentEvaluations + 1)
\* two processes at most are alive at a time under one id
Gens == {1, 2}
Procs == 1..(Cardinality(Ids) * Cardinality(Gens))
ProcOf(id, g) == (id - 1) * Cardinality(Gens) + g
IdOf(p) == ((p - 1) \div Cardinality(Gens)) + 1
GenOf(p) == ((p - 1) % Cardinality(Gens)) + 1
NoGen == 0
NoId == 0
NullCode == -1

ExitCodes == {0, 1, 100, NullCode}
\* A string is a sequence of tokens: "P" is the text sk-, "A" a block of
\* alphanumeric characters half as long as the shortest API key, "x" a
\* character that is not alphanumeric.  A chunk is a string.
StderrChunks == {<<"x">>, <<"P", "A", "A">>}
OutputStates == {"absent", "invalid", "valid"}
Handlers == {"service", "inline"}

ErrorCodes ==
  [VALIDATION_ERROR |-> "VALIDATION_ERROR",
   API_KEY_MISSING |-> "API_KEY_MISSING",
   PROCESS_ERROR |-> "PROCESS_ERROR",
   TIMEOUT_ERROR |-> "TIMEOUT_ERROR",
   PARSE_ERROR |-> "PARSE_ERROR",
   CONFIG_ERROR |-> "CONFIG_ERROR",
   ENVIRONMENT_ERROR |-> "ENVIRONMENT_ERROR",
   CONCURRENT_LIMIT_ERROR |-> "CONCURRENT_LIMIT_ERROR",
   UNKNOWN_ERROR |-> "UNKNOWN_ERROR",
   NONE |-> "NONE"]

VARIABLES
  serverUp,           \* the serving process has not called process.exit
  apiKey,             \* process.env.OPENROUTER_API_KEY is set
  handler,            \* which revision of the run action is deployed
  activeEvaluations,  \* id -> g, the entry's process is ProcOf(id, g); NoGen if absent
  timer,              \* handle -> the timeout armed with it is still pending
  procState,          \* handle -> "none" | "running" | "closed"
  sigterm,            \* handle -> the process has been sent SIGTERM
  input,              \* the event a handler checked on its own is given
  response            \* what the step just taken returned to its caller

vars == <<serverUp, apiKey, handler, activeEvaluations, timer, procState,
          sigterm, input, response>>

regVars == <<activeEvaluations, timer, procState, sigterm>>

\* ------------------------------------------------------- registry operators
\* The registry and the processes it holds handles of, as one value.
Reg ==
  [active |-> activeEvaluations, timer |-> timer, state |-> procState,
   sigterm |-> sigterm]

Tracked(reg) == {i \in Ids : reg.active[i] # NoGen}

getActiveCount(reg) == Cardinality(Tracked(reg))

canStartNewOffByOne(reg) == getActiveCount(reg) <= maxConcurrentEvaluations

canStartNew(reg) == getActiveCount(reg) < maxConcurrentEvaluations

unregisterKeepsEntry(reg, id) ==
  IF reg.active[id] # NoGen
    THEN [reg EXCEPT !.timer[ProcOf(id, reg.active[id])] = FALSE]
    ELSE reg

unregisterSignals(reg, id) ==
  [reg EXCEPT
     !.sigterm = [p \in Procs |-> IF IdOf(p) = id /\ reg.state[p] = "running" THEN TRUE ELSE @[p]],
     !.timer = [p \in Procs |-> IF p = ProcOf(id, reg.active[id]) THEN FALSE ELSE @[p]],
     !.active[id] = NoGen]

unregister(reg, id) ==
  IF reg.active[id] # NoGen
    THEN [reg EXCEPT !.timer[ProcOf(id, reg.active[id])] = FALSE, !.active[id] = NoGen]
    ELSE reg

\* ChildProcess.kill delivers the signal only to a process that still runs.
kill(reg, p) ==
  IF reg.state[p] = "running" THEN [reg EXCEPT !.sigterm[p] = TRUE] ELSE reg

cancelNoKill(reg, id) ==
  IF reg.active[id] # NoGen THEN unregister(reg, id) ELSE reg

cancelWaitsForExit(reg, id) ==
  IF reg.active[id] # NoGen THEN kill(reg, ProcOf(id, reg.active[id])) ELSE reg

cancel(reg, id) ==
  IF reg.active[id] # NoGen
    THEN unregister(kill(reg, ProcOf(id, reg.active[id])), id)
    ELSE reg

RECURSIVE cancelEach(_, _)
cancelEach(reg, ids) ==
  IF ids = {} THEN reg
  ELSE LET id == CHOOSE i \in ids : \A j \in ids : i <= j
       IN cancelEach(cancel(reg, id), ids \ {id})

cancelAllFirstOnly(reg) ==
  IF Tracked(reg) = {} THEN reg
  ELSE cancel(reg, CHOOSE i \in Tracked(reg) : \A j \in Tracked(reg) : i <= j)

\* for (const id of keys()) cancel(id): a Map iterator visits every entry
\* that is not deleted before it is reached, and cancel deletes only the
\* entry being visited.
cancelAll(reg) == cancelEach(reg, Tracked(reg))

\* The part of register after the capacity check: arm the timeout, store
\* the entry (Map.set replaces an entry already stored under the id), listen
\* for close.
registerEntry(reg, p) ==
  [reg EXCEPT !.timer[p] = TRUE, !.active[IdOf(p)] = GenOf(p)]

\* A handle the program holds no reference to.
FreeSlot(reg, p) == reg.state[p] = "none" /\ ~reg.timer[p]

Live(reg) == {p \in Procs : ~FreeSlot(reg, p)}

LiveIds(reg) == {IdOf(p) : p \in Live(reg)}

NewProc(reg, id) ==
  ProcOf(id, CHOOSE g \in Gens : FreeSlot(reg, ProcOf(id, g))
                       /\ \A h \in Gens : FreeSlot(reg, ProcOf(id, h)) => g <= h)

spawn(reg, p) == [reg EXCEPT !.state[p] = "running", !.sigterm[p] = FALSE]

\* A closed process whose timer is gone is dropped from the model.
Collect(reg) ==
  [reg EXCEPT
    !.state = [p \in Procs |-> IF reg.state[p] = "closed" /\ ~reg.timer[p] THEN "none" ELSE reg.state[p]],
    !.sigterm = [p \in Procs |-> IF reg.state[p] # "running" THEN FALSE ELSE reg.sigterm[p]]]

\* Live handles that are not the process of a tracked entry.
Loose(reg) == {p \in Procs : ~FreeSlot(reg, p) /\ reg.active[IdOf(p)] # GenOf(p)}

SetReg(reg) ==
  /\ activeEvaluations' = reg.active
  /\ timer' = reg.timer
  /\ procState' = reg.state
  /\ sigterm' = reg.sigterm

\* The registry driven directly leaves at most MaxLoose such handles.
LooseBound(reg) == Cardinality(Loose(reg)) <= MaxLoose

NoResponse ==
  [kind |-> "none", id |-> NoId, success |-> TRUE, code |-> ErrorCodes.NONE,
   message |-> <<>>, parsed |-> FALSE, killed |-> FALSE, thrown |-> FALSE,
   result |-> <<>>]

NoInput == [code |-> 0, chunks |-> <<>>, out |-> "absent", given |-> FALSE]

Init ==
  /\ serverUp = TRUE
  /\ apiKey \in BOOLEAN
  /\ handler \in Handlers
  /\ activeEvaluations = [i \in Ids |-> NoGen]
  /\ timer = [p \in Procs |-> FALSE]
  /\ procState = [p \in Procs |-> "none"]
  /\ sigterm = [p \in Procs |-> FALSE]
  /\ input = NoInput
  /\ response = NoResponse

\* ------------------------------------------------ registry driven directly
\* An id nothing refers to is an opaque string like any other: the least
\* one stands for all of them.
FreshIds(reg) ==
  {i \in Ids \ LiveIds(reg) : \A j \in Ids \ LiveIds(reg) : i <= j}

RegisterIds(reg) ==
  FreshIds(reg) \cup {i \in LiveIds(reg) : \E g \in Gens : FreeSlot(reg, ProcOf(i, g))}

\* register(id, process, command, timeoutMs) with a process just spawned
CallRegister(id) ==
  /\ serverUp
  /\ id \in RegisterIds(Reg)
  /\ IF ~canStartNew(Reg)
       THEN /\ response' = [NoResponse EXCEPT !.kind = "register",
                              !.success = FALSE,
                              !.message = <<"Max concurrent evaluations reached">>]
            /\ UNCHANGED regVars
       ELSE /\ LET p == NewProc(Reg, id)
               IN SetReg(registerEntry(spawn(Reg, p), p))
            /\ response' = [NoResponse EXCEPT !.kind = "register"]
  /\ UNCHANGED <<serverUp, apiKey, handler, input>>

CallUnregister(id) ==
  /\ serverUp
  /\ SetReg(unregister(Reg, id))
  /\ response' = [NoResponse EXCEPT !.kind = "unregister"]
  /\ UNCHANGED <<serverUp, apiKey, handler, input>>

CallCancel(id) ==
  /\ serverUp
  /\ SetReg(cancel(Reg, id))
  /\ response' = [NoResponse EXCEPT !.kind = "cancel"]
  /\ UNCHANGED <<serverUp, apiKey, handler, input>>

CallCancelAll ==
  /\ serverUp
  /\ SetReg(cancelAll(Reg))
  /\ response' = [NoResponse EXCEPT !.kind = "cancelAll"]
  /\ UNCHANGED <<serverUp, apiKey, handler, input>>

\* The callback signals the process and leaves the entry to the close listener.
TimeoutFiresWaitsForExit(p) ==
  /\ serverUp
  /\ timer[p]
  /\ SetReg(Collect(cancelWaitsForExit([Reg EXCEPT !.timer[p] = FALSE], IdOf(p))))
  /\ response' = [NoResponse EXCEPT !.kind = "timeout"]
  /\ UNCHANGED <<serverUp, apiKey, handler, input>>

\* The timeout armed with handle p fires: its callback runs cancel(id).
TimeoutFires(p) ==
  /\ serverUp
  /\ timer[p]
  /\ SetReg(Collect(cancel([Reg EXCEPT !.timer[p] = FALSE], IdOf(p))))
  /\ response' = [NoResponse EXCEPT !.kind = "timeout"]
  /\ UNCHANGED <<serverUp, apiKey, handler, input>>

\* The process with handle p closes: the listener added by register runs.
ProcessExit(p) ==
  /\ serverUp
  /\ procState[p] = "running"
  /\ SetReg(Collect(unregister([Reg EXCEPT !.state[p] = "closed"], IdOf(p))))
  /\ response' = [NoResponse EXCEPT !.kind = "exit"]
  /\ UNCHANGED <<serverUp, apiKey, handler, input>>

ShutdownSignals == {"SIGTERM", "SIGINT"}

\* The cleanup handler of setupCleanupHandlers: cancelAll, then
\* process.exit(0), after which no callback of the server runs.
Shutdown(sig) ==
  /\ serverUp
  /\ SetReg(cancelAll(Reg))
  /\ serverUp' = FALSE
  /\ response' = [NoResponse EXCEPT !.kind = "shutdown", !.message = <<sig>>]
  /\ UNCHANGED <<apiKey, handler, input>>

InitRegistry == Init /\ apiKey = TRUE /\ handler = "service"

NextRegistry ==
  \/ \E id \in Ids : CallRegister(id) /\ LooseBound(Reg')
  \/ \E id \in Ids : CallUnregister(id) /\ LooseBound(Reg')
  \/ \E id \in Ids : CallCancel(id) /\ LooseBound(Reg')
  \/ CallCancelAll
  \/ \E p \in Procs : TimeoutFires(p) /\ LooseBound(Reg')
  \/ \E p \in Procs : ProcessExit(p)
  \/ \E sig \in ShutdownSignals : Shutdown(sig)

SpecRegistry == InitRegistry /\ [][NextRegistry]_vars

\* ------------------------------------------------------------ the run action
Undefined == "undefined"
\* the count of a form that has none
NoCount == 0
RunTypes == {"smoke", "model", "full", "pattern", "first", "retry"}
MODEL_OPTIONS == {"xiaomi", "gemini", "gpt-oss-20b", "gpt-oss-120b"}

\* The forms the model submits.
Requests ==
  [runType : {"smoke", "model"}, modelName : {Undefined, "gemini", "bogus"},
   pattern : {Undefined}, count : {NoCount}]

isValidModel(m) == m \in MODEL_OPTIONS

\* The object schema alone, without superRefine: count is a positive integer.
FormIssuesFieldsOnly(req) ==
  IF req.count # NoCount /\ req.count <= 0 THEN {"count"} ELSE {}

\* evalFormSchema: the issues of the fields and those superRefine adds; the
\* form is valid without any.
FormIssues(req) ==
  (IF req.runType = "model" /\ req.modelName \in {Undefined, ""}
     THEN {"modelName"} ELSE {}) \cup
  (IF req.runType = "model" /\ req.modelName \notin {Undefined, ""} /\ ~isValidModel(req.modelName)
     THEN {"modelName"} ELSE {}) \cup
  (IF req.runType = "pattern" /\ req.pattern \in {Undefined, ""}
     THEN {"pattern"} ELSE {}) \cup
  (IF req.runType = "first" /\ (req.count = NoCount \/ req.count <= 0)
     THEN {"count"} ELSE {}) \cup
  (IF req.modelName \notin {Undefined, ""} /\ ~isValidModel(req.modelName)
     THEN {"modelName"} ELSE {}) \cup
  (IF req.count # NoCount /\ req.count <= 0 THEN {"count"} ELSE {})

FormValid(req) == FormIssues(req) = {}

\* The API-key pattern sk-[a-zA-Z0-9]{32,} needs KeyBlocks blocks after sk-.
KeyBlocks == 2

\* The number of "A" tokens of str from position i on.
RECURSIVE BlocksAt(_, _)
BlocksAt(str, i) ==
  IF i <= Len(str) /\ str[i] = "A" THEN 1 + BlocksAt(str, i + 1) ELSE 0

\* String.replace with the global API-key pattern: leftmost matches, each
\* as long as it can be, replaced by the placeholder.
RECURSIVE replaceFrom(_, _)
replaceFrom(str, i) ==
  IF i > Len(str) THEN <<>>
  ELSE IF str[i] = "P" /\ BlocksAt(str, i + 1) >= KeyBlocks
    THEN <<"[REDACTED]">> \o replaceFrom(str, i + 1 + BlocksAt(str, i + 1))
    ELSE <<str[i]>> \o replaceFrom(str, i + 1)

sanitizeOutput(out) == replaceFrom(out, 1)

sanitizeErrorMessage(msg) == sanitizeOutput(msg)

\* child.stderr.on('data'): the chunk is sanitized and appended
onStderrData(buf, chunk) == buf \o sanitizeOutput(chunk)

RECURSIVE captureStderr(_)
captureStderr(chunks) ==
  IF chunks = <<>> THEN <<>>
  ELSE onStderrData(captureStderr(SubSeq(chunks, 1, Len(chunks) - 1)), chunks[Len(chunks)])

CodeText(code) ==
  CASE code = 0 -> "0" [] code = 1 -> "1" [] code = 100 -> "100" [] OTHER -> "null"

\* The error of a close with a non-zero code.
ExitError(err, code) ==
  [NoResponse EXCEPT !.kind = "close", !.success = FALSE,
     !.code = ErrorCodes.PROCESS_ERROR,
     !.message = IF sanitizeOutput(err) # <<>>
                   THEN sanitizeErrorMessage(sanitizeOutput(err))
                   ELSE <<"Process exited with code", CodeText(code)>>]

\* The result of a close with code 0, from the results file.
ResultsResponse(out) ==
  IF out = "valid"
    THEN [NoResponse EXCEPT !.kind = "close", !.parsed = TRUE, !.message = <<"summary">>]
    ELSE [NoResponse EXCEPT !.kind = "close", !.parsed = TRUE, !.success = FALSE,
            !.code = ErrorCodes.PARSE_ERROR,
            !.message = IF out = "absent" THEN <<"No results found">>
                                          ELSE <<"Failed to parse results">>]

\* The inline revision of the run action creates no EvaluationError.
errorCode(h, c) == IF h = "inline" THEN ErrorCodes.NONE ELSE c

\* The close handler of the run action, after its unregister call.  The
\* inline revision calls parseResults before it looks at the code.
closeResponse(h, err, code, out) ==
  IF code # 0
    THEN [ExitError(err, code) EXCEPT !.parsed = (h = "inline"),
            !.code = errorCode(h, @)]
    ELSE [ResultsResponse(out) EXCEPT !.code = errorCode(h, @)]

RunSpawnsFirst(req) ==
  /\ serverUp
  /\ FreshIds(Reg) # {}
  /\ LET p == NewProc(Reg, CHOOSE i \in FreshIds(Reg) : TRUE) IN
       IF ~FormValid(req) \/ ~apiKey \/ ~canStartNew(Reg)
         THEN /\ SetReg(Collect(kill(spawn(Reg, p), p)))
              /\ response' = [NoResponse EXCEPT !.kind = "run", !.success = FALSE,
                                !.message = <<"rejected">>]
         ELSE /\ SetReg(registerEntry(spawn(Reg, p), p))
              /\ response' = [NoResponse EXCEPT !.kind = "run", !.id = IdOf(p)]
  /\ UNCHANGED <<serverUp, apiKey, handler, input>>

\* The checks of the run action with the capacity check moved to the front.
RunCapacityFirst(req) ==
  /\ serverUp
  /\ IF ~canStartNew(Reg)
       THEN /\ response' = [NoResponse EXCEPT !.kind = "run", !.success = FALSE,
                              !.code = errorCode(handler, ErrorCodes.CONCURRENT_LIMIT_ERROR),
                              !.message = <<"Maximum concurrent evaluations reached">>]
            /\ UNCHANGED regVars
       ELSE IF ~FormValid(req)
       THEN /\ response' = [NoResponse EXCEPT !.kind = "run", !.success = FALSE,
                              !.message = <<"form invalid">>]
            /\ UNCHANGED regVars
       ELSE IF ~apiKey
       THEN /\ response' = [NoResponse EXCEPT !.kind = "run", !.success = FALSE,
                              !.code = errorCode(handler, ErrorCodes.API_KEY_MISSING),
                              !.message = <<"API key not configured">>]
            /\ UNCHANGED regVars
       ELSE /\ FreshIds(Reg) # {}
            /\ LET p == NewProc(Reg, CHOOSE i \in FreshIds(Reg) : TRUE)
               IN /\ SetReg(registerEntry(spawn(Reg, p), p))
                  /\ response' = [NoResponse EXCEPT !.kind = "run", !.id = IdOf(p)]
  /\ UNCHANGED <<serverUp, apiKey, handler, input>>

\* actions.run from the return of superValidate up to the promise it
\* returns: one turn of the event loop, no await in it.
RunTurn(req) ==
  /\ serverUp
  /\ IF ~FormValid(req)
       THEN /\ response' = [NoResponse EXCEPT !.kind = "run", !.success = FALSE,
                              !.message = <<"form invalid">>]
            /\ UNCHANGED regVars
       ELSE IF ~apiKey
       THEN /\ response' = [NoResponse EXCEPT !.kind = "run", !.success = FALSE,
                              !.code = errorCode(handler, ErrorCodes.API_KEY_MISSING),
                              !.message = <<"API key not configured">>]
            /\ UNCHANGED regVars
       ELSE IF ~canStartNew(Reg)
       THEN /\ response' = [NoResponse EXCEPT !.kind = "run", !.success = FALSE,
                              !.code = errorCode(handler, ErrorCodes.CONCURRENT_LIMIT_ERROR),
                              !.message = <<"Maximum concurrent evaluations reached">>]
            /\ UNCHANGED regVars
       ELSE /\ FreshIds(Reg) # {}
            /\ LET p == NewProc(Reg, CHOOSE i \in FreshIds(Reg) : TRUE)
                   spawned == spawn(Reg, p)
               IN IF ~canStartNew(spawned)
                    THEN /\ SetReg(Collect(kill(spawned, p)))
                         /\ response' = [NoResponse EXCEPT !.kind = "run", !.success = FALSE,
                                           !.id = IdOf(p),
                                           !.code = errorCode(handler, ErrorCodes.PROCESS_ERROR),
                                           !.message = <<"Max concurrent evaluations reached">>]
                    ELSE /\ SetReg(registerEntry(spawned, p))
                         /\ response' = [NoResponse EXCEPT !.kind = "run", !.id = IdOf(p)]

\* actions.run, up to the promise it returns
Run(req) ==
  /\ RunTurn(req)
  /\ UNCHANGED <<serverUp, apiKey, handler, input>>

\* child.on('close'): the listener added by register unregisters the id,
\* then the handler of the run action unregisters it and resolves the
\* promise.  The children of this specification write nothing to stderr.
ChildClose(p, code, out) ==
  /\ serverUp
  /\ procState[p] = "running"
  /\ LET id == IdOf(p)
         listener == unregister([Reg EXCEPT !.state[p] = "closed"], id)
     IN SetReg(Collect(unregister(listener, id)))
  /\ response' = [closeResponse(handler, <<>>, code, out) EXCEPT
                    !.id = IdOf(p), !.killed = sigterm[p]]
  /\ UNCHANGED <<serverUp, apiKey, handler, input>>

\* child.on('error'): the child could not be spawned; the handler of the
\* run action unregisters the id and resolves the promise.
ChildError(p) ==
  /\ serverUp
  /\ procState[p] = "running"
  /\ ~sigterm[p]
  /\ activeEvaluations[IdOf(p)] = GenOf(p)
  /\ SetReg(Collect(unregister([Reg EXCEPT !.state[p] = "closed"], IdOf(p))))
  /\ response' = [NoResponse EXCEPT !.kind = "error", !.success = FALSE, !.id = IdOf(p),
                    !.code = errorCode(handler, ErrorCodes.PROCESS_ERROR),
                    !.message = <<"spawn failed">>]
  /\ UNCHANGED <<serverUp, apiKey, handler, input>>

\* --------------------------------------------------------- the preview action
\* How the dry run of a preview ends: its child closes with code 0, closes
\* with another code, or cannot be spawned.
DryRunOutcomes == {"ok", "exit", "error"}

\* loadTestConfig: the service revision rejects its promise when the dry run
\* fails, the inline revision resolves it with no tests.
loadTestConfig(h, outcome) ==
  IF outcome = "ok" \/ h = "inline"
    THEN [rejected |-> FALSE, code |-> ErrorCodes.NONE, message |-> <<"tests">>]
    ELSE [rejected |-> TRUE,
          code |-> IF outcome = "exit" THEN ErrorCodes.CONFIG_ERROR
                                       ELSE ErrorCodes.PROCESS_ERROR,
          message |-> IF outcome = "exit" THEN <<"Failed to load test config">>
                                          ELSE <<"spawn failed">>]

\* actions.preview: getPreview is awaited outside any try, so a rejection
\* of loadTestConfig leaves the action as an exception.
Preview(req, outcome) ==
  /\ serverUp
  /\ IF ~FormValid(req)
       THEN response' = [NoResponse EXCEPT !.kind = "preview", !.success = FALSE,
                           !.message = <<"form invalid">>]
       ELSE LET config == loadTestConfig(handler, outcome) IN
            IF config.rejected
              THEN response' = [NoResponse EXCEPT !.kind = "preview", !.success = FALSE,
                                  !.thrown = TRUE, !.code = config.code,
                                  !.message = config.message]
              ELSE response' = [NoResponse EXCEPT !.kind = "preview",
                                  !.message = <<"preview">>]
  /\ UNCHANGED <<serverUp, apiKey, handler, input>>
  /\ UNCHANGED regVars

Next ==
  \/ \E req \in Requests : Run(req)
  \/ \E p \in Procs, code \in ExitCodes, out \in OutputStates : ChildClose(p, code, out)
  \/ \E p \in Procs : ChildError(p)
  \/ \E p \in Procs : TimeoutFires(p)
  \/ \E req \in Requests, outcome \in DryRunOutcomes : Preview(req, outcome)

Spec == Init /\ [][Next]_vars

\* ------------------------------------------------- the close handler alone
RECURSIVE SeqsUpTo(_, _)
SeqsUpTo(S, n) ==
  IF n = 0 THEN {<<>>}
  ELSE LET shorter == SeqsUpTo(S, n - 1)
       IN shorter \cup {Append(q, x) : q \in shorter, x \in S}

\* The chunks of a stream, joined.
RECURSIVE Concat(_)
Concat(chunks) ==
  IF chunks = <<>> THEN <<>> ELSE Head(chunks) \o Concat(Tail(chunks))

CloseInputs ==
  [code : ExitCodes, chunks : SeqsUpTo(StderrChunks, MaxChunks),
   out : OutputStates, given : {TRUE}]

InitClose ==
  /\ serverUp = TRUE
  /\ apiKey = TRUE
  /\ handler \in Handlers
  /\ activeEvaluations = [id \in Ids |-> NoGen]
  /\ timer = [p \in Procs |-> FALSE]
  /\ procState = [p \in Procs |-> "none"]
  /\ sigterm = [p \in Procs |-> FALSE]
  /\ input \in CloseInputs
  /\ response = NoResponse

\* The child delivers its stderr chunks and closes.
Closes ==
  /\ input.given
  /\ response.kind = "none"
  /\ response' = closeResponse(handler, captureStderr(input.chunks), input.code, input.out)
  /\ UNCHANGED <<serverUp, apiKey, handler, input>>
  /\ UNCHANGED regVars

NextClose == Closes

SpecClose == InitClose /\ [][NextClose]_vars

\* ------------------------------------------- the wrapper script and the engine
\* executePromptfoo: the promise resolves on the engine's codes 0 and 100.
executePromptfooZeroOnly(code) == code = 0

executePromptfoo(code) == code = 0 \/ code = 100

\* main: the exit code of the wrapper, the child of the run action.
main(code) == IF executePromptfoo(code) THEN 0 ELSE 1

\* The engine inherits the wrapper's stderr; main reports a rejection there.
mainStderr(chunks, code) ==
  IF executePromptfoo(code) THEN chunks ELSE Append(chunks, <<"x">>)

InitWrapper == InitClose

\* The engine closes with input.code; the wrapper ends and the run action's
\* close handler answers.
EngineCloses ==
  /\ input.given
  /\ response.kind = "none"
  /\ response' = closeResponse(handler,
                               captureStderr(mainStderr(input.chunks, input.code)),
                               main(input.code), input.out)
  /\ UNCHANGED <<serverUp, apiKey, handler, input>>
  /\ UNCHANGED regVars

NextWrapper == EngineCloses

SpecWrapper == InitWrapper /\ [][NextWrapper]_vars

\* ------------------------------------------ stderr delivered in any chunks
\* how many data events a child's stderr is delivered in
MaxPieces == 2
\* how many tokens one data event holds
MaxPieceLen == 3

StderrTokens == {"x", "P", "A"}

\* Every delivery of a stderr stream: up to MaxPieces chunks, none empty.
StderrDeliveries ==
  SeqsUpTo(SeqsUpTo(StderrTokens, MaxPieceLen) \ {<<>>}, MaxPieces)

InitStderr ==
  /\ serverUp = TRUE
  /\ apiKey = TRUE
  /\ handler \in Handlers
  /\ activeEvaluations = [id \in Ids |-> NoGen]
  /\ timer = [p \in Procs |-> FALSE]
  /\ procState = [p \in Procs |-> "none"]
  /\ sigterm = [p \in Procs |-> FALSE]
  /\ input \in [code : ExitCodes \ {0}, chunks : StderrDeliveries,
                out : {"absent"}, given : {TRUE}]
  /\ response = NoResponse

SpecStderr == InitStderr /\ [][NextClose]_vars

\* ----------------------------------------------------------- buildCommandArgs
CLI_FLAGS == [NO_CACHE |-> "--no-cache", VERBOSE |-> "--verbose", NO_HTML |-> "--no-html"]

\* The form data the model builds arguments from: those evalFormSchema admits.
FormData ==
  {f \in [runType : RunTypes, modelName : {Undefined, "", "gemini"},
          pattern : {Undefined, "", "venue", "--verbose"}, count : {NoCount, 1, 2},
          noCache : BOOLEAN, verbose : BOOLEAN, noHtml : BOOLEAN] : FormValid(f)}

\* A string that is neither undefined nor empty.
Truthy(str) == str \notin {Undefined, ""}

buildCommandArgsModelAnywhere(formData) ==
  <<formData.runType>>
  \o (IF Truthy(formData.modelName) THEN <<formData.modelName>> ELSE <<>>)
  \o (IF formData.noCache THEN <<CLI_FLAGS.NO_CACHE>> ELSE <<>>)
  \o (IF formData.verbose THEN <<CLI_FLAGS.VERBOSE>> ELSE <<>>)
  \o (IF formData.noHtml THEN <<CLI_FLAGS.NO_HTML>> ELSE <<>>)

buildCommandArgs(formData) ==
  <<formData.runType>>
  \o (IF formData.runType = "model" /\ Truthy(formData.modelName)
        THEN <<formData.modelName>>
      ELSE IF formData.runType = "pattern" /\ Truthy(formData.pattern)
        THEN <<formData.pattern>>
      ELSE IF formData.runType = "first" /\ formData.count # NoCount
        THEN <<ToString(formData.count)>>
             \o (IF Truthy(formData.modelName) THEN <<"model", formData.modelName>> ELSE <<>>)
      ELSE <<>>)
  \o (IF formData.noCache THEN <<CLI_FLAGS.NO_CACHE>> ELSE <<>>)
  \o (IF formData.verbose THEN <<CLI_FLAGS.VERBOSE>> ELSE <<>>)
  \o (IF formData.noHtml THEN <<CLI_FLAGS.NO_HTML>> ELSE <<>>)

InitArgs ==
  /\ serverUp = TRUE
  /\ apiKey = TRUE
  /\ handler = "service"
  /\ activeEvaluations = [id \in Ids |-> NoGen]
  /\ timer = [p \in Procs |-> FALSE]
  /\ procState = [p \in Procs |-> "none"]
  /\ sigterm = [p \in Procs |-> FALSE]
  /\ input \in FormData
  /\ response = NoResponse

\* The run action builds the command line of a validated form.
BuildArgs ==
  /\ response.kind = "none"
  /\ response' = [NoResponse EXCEPT !.kind = "args", !.message = buildCommandArgs(input)]
  /\ UNCHANGED <<serverUp, apiKey, handler, input>>
  /\ UNCHANGED regVars

NextArgs == BuildArgs

SpecArgs == InitArgs /\ [][NextArgs]_vars

\* --------------------------------------------------------------- parseResults
\* how many entries a results array of the model holds
MaxResults == 3
\* how many points in time reports of the model are generated at
MaxStamp == 2

\* An entry of the results array: an object with success true, with success
\* false, without a success flag, or the JSON value null.
Entries == {"pass", "fail", "bare", "null"}

\* The results file of the scenario: 20 entries, 17 of them passed.
Scenario20 == [i \in 1..20 |-> IF i <= 17 THEN "pass" ELSE "fail"]

ResultArrays == SeqsUpTo(Entries, MaxResults) \cup {Scenario20}

\* The results file: absent, not JSON, or a JSON document that is null, an
\* object without results, an object whose results is an object, or an
\* object whose results is an array.
ResultFiles ==
  [kind : {"absent", "garbled"}, shape : {"none"}, results : {<<>>}]
    \cup [kind : {"json"}, shape : {"null", "missing", "object"}, results : {<<>>}]
    \cup [kind : {"json"}, shape : {"array"}, results : ResultArrays]

\* The files of the reports directory: the wrapper names a report
\* eval-<command>-<timestamp>.html; other files may lie there.
ReportFiles ==
  [command : {"full", "smoke"}, stamp : 1..MaxStamp, ext : {".html"}]
    \cup [command : {"full"}, stamp : {MaxStamp}, ext : {".txt"}]

\* Character codes of the text of a file name.
CommandText(command) ==
  IF command = "full" THEN <<102, 117, 108, 108>> ELSE <<115, 109, 111, 107, 101>>

\* generateTimestamp: of fixed width, later times give greater text.
generateTimestamp(stamp) == <<48 + stamp>>

ExtText(ext) ==
  IF ext = ".html" THEN <<46, 104, 116, 109, 108>> ELSE <<46, 116, 120, 116>>

\* generateHtmlPath: eval-<command>-<timestamp> and the extension
fileName(f) ==
  <<101, 118, 97, 108, 45>> \o CommandText(f.command) \o <<45>>
    \o generateTimestamp(f.stamp) \o ExtText(f.ext)

\* The order Array.prototype.sort puts strings in.
RECURSIVE Before(_, _)
Before(a, b) ==
  IF b = <<>> THEN FALSE
  ELSE IF a = <<>> THEN TRUE
  ELSE IF Head(a) # Head(b) THEN Head(a) < Head(b)
  ELSE Before(Tail(a), Tail(b))

\* readdirSync, filter on .html, sort, reverse, first
latestReport(dir) ==
  LET reports == {f \in dir : f.ext = ".html"}
  IN IF reports = {} THEN <<>>
     ELSE <<CHOOSE f \in reports :
              \A g \in reports : g = f \/ Before(fileName(g), fileName(f))>>

passedCountNotFailed(results) ==
  Cardinality({i \in DOMAIN results : results[i] # "fail"})

\* results.filter(r => r.success).length
passedCount(results) ==
  Cardinality({i \in DOMAIN results : results[i] = "pass"})

\* passed / total * 100 as a fraction in lowest terms
RECURSIVE GCD(_, _)
GCD(a, b) == IF b = 0 THEN a ELSE GCD(b, a % b)

passRate(passed, total) ==
  IF total > 0
    THEN [num |-> (passed * 100) \div GCD(passed * 100, total),
          den |-> total \div GCD(passed * 100, total)]
    ELSE [num |-> 0, den |-> 1]

\* JSON.parse or a property access of the try block throws
ParseThrows(file) ==
  \/ file.kind = "garbled"
  \/ file.shape \in {"null", "object"}
  \/ \E i \in DOMAIN file.results : file.results[i] = "null"

NoSummary ==
  [success |-> FALSE, passRate |-> [num |-> 0, den |-> 1], totalTests |-> 0,
   passedTests |-> 0, failedTests |-> 0, htmlReportPath |-> <<>>]

parseResultsEmptyWhenAbsent(h, file, dir) ==
  [outcome |-> "value", value |-> [NoSummary EXCEPT !.success = TRUE]]

\* parseResults: null, a thrown parse error (the inline revision returns a
\* failure instead), or the summary.
parseResults(h, file, dir) ==
  IF file.kind = "absent" THEN [outcome |-> "null", value |-> NoSummary]
  ELSE IF ParseThrows(file)
    THEN [outcome |-> IF h = "inline" THEN "value" ELSE "throw", value |-> NoSummary]
  ELSE LET results == file.results
           totalTests == Len(results)
           passedTests == passedCount(results)
       IN [outcome |-> "value",
           value |-> [success |-> TRUE,
                      passRate |-> passRate(passedTests, totalTests),
                      totalTests |-> totalTests,
                      passedTests |-> passedTests,
                      failedTests |-> totalTests - passedTests,
                      htmlReportPath |-> latestReport(dir)]]

\* What the close handler makes of parseResults on exit code 0.
OutputState(parsed) ==
  IF parsed.outcome = "null" THEN "absent"
  ELSE IF parsed.outcome = "throw" \/ ~parsed.value.success THEN "invalid"
  ELSE "valid"

InitParse ==
  /\ serverUp = TRUE
  /\ apiKey = TRUE
  /\ handler \in Handlers
  /\ activeEvaluations = [id \in Ids |-> NoGen]
  /\ timer = [p \in Procs |-> FALSE]
  /\ procState = [p \in Procs |-> "none"]
  /\ sigterm = [p \in Procs |-> FALSE]
  /\ input \in [file : ResultFiles, dir : SUBSET ReportFiles]
  /\ response = NoResponse

\* A child closes with code 0: the close handler parses the results file.
ClosesZero ==
  /\ response.kind = "none"
  /\ LET parsed == parseResults(handler, input.file, input.dir)
     IN response' = [closeResponse(handler, <<>>, 0, OutputState(parsed)) EXCEPT
                       !.result = parsed]
  /\ UNCHANGED <<serverUp, apiKey, handler, input>>
  /\ UNCHANGED regVars

NextParse == ClosesZero

SpecParse == InitParse /\ [][NextParse]_vars

\* ------------------------------------------------ the run action on any form
\* Every form a client can post: fields absent, empty, unknown or negative.
AllForms ==
  [runType : RunTypes, modelName : {Undefined, "", "gemini", "bogus"},
   pattern : {Undefined, "", "venue"}, count : {NoCount, -1, 2},
   noCache : {FALSE}, verbose : BOOLEAN, noHtml : {FALSE}]

InitForm ==
  /\ serverUp = TRUE
  /\ apiKey \in BOOLEAN
  /\ handler = "service"
  /\ activeEvaluations = [id \in Ids |-> NoGen]
  /\ timer = [p \in Procs |-> FALSE]
  /\ procState = [p \in Procs |-> "none"]
  /\ sigterm = [p \in Procs |-> FALSE]
  /\ input \in AllForms
  /\ response = NoResponse

\* The posted form is submitted to the run action, once.
SubmitForm ==
  /\ response.kind = "none"
  /\ Run(input)

NextForm == SubmitForm

SpecForm == InitForm /\ [][NextForm]_vars

\* ------------------------------------------------- estimations and getPreview
\* how many tests a dry run lists
MaxTests == 11

avgSecondsPerTest == 5
avgTokensPerTest == 1000

ALL_MODELS == <<"xiaomi", "gemini", "gpt-oss-20b", "gpt-oss-120b">>

Min(a, b) == IF a <= b THEN a ELSE b

estimateTestCountUncapped(runType, formData, actualTestCount) ==
  CASE runType = "smoke" -> 5
    [] runType = "first" -> IF formData.count = NoCount THEN 10 ELSE formData.count
    [] OTHER -> actualTestCount

estimateTestCount(runType, formData, actualTestCount) ==
  CASE runType = "smoke" -> 5
    [] runType \in {"model", "full"} -> actualTestCount
    [] runType = "pattern" -> Min(actualTestCount, 10)
    [] runType = "first" -> IF formData.count = NoCount THEN 10 ELSE formData.count
    [] runType = "retry" -> Min(actualTestCount, 10)
    [] OTHER -> actualTestCount

estimateModelCount(runType, formData) ==
  CASE runType \in {"smoke", "model"} -> 1
    [] runType \in {"full", "pattern", "retry"} -> Len(ALL_MODELS)
    [] runType = "first" -> IF Truthy(formData.modelName) THEN 1 ELSE Len(ALL_MODELS)
    [] OTHER -> 1

getModelsForRunType(runType, formData) ==
  CASE runType = "smoke" -> <<"xiaomi">>
    [] runType = "model" ->
         IF Truthy(formData.modelName) /\ isValidModel(formData.modelName)
           THEN <<formData.modelName>> ELSE <<>>
    [] runType \in {"full", "pattern", "retry"} -> ALL_MODELS
    [] runType = "first" ->
         IF Truthy(formData.modelName) /\ isValidModel(formData.modelName)
           THEN <<formData.modelName>> ELSE ALL_MODELS
    [] OTHER -> <<>>

calculateTimeEstimate(testCount, modelCount) == testCount * modelCount * avgSecondsPerTest

calculateTokenEstimate(testCount, modelCount) == testCount * modelCount * avgTokensPerTest

estimateRunConfiguration(runType, formData, actualTestCount) ==
  LET testCount == estimateTestCount(runType, formData, actualTestCount)
      modelCount == estimateModelCount(runType, formData)
  IN [testCount |-> testCount,
      modelCount |-> modelCount,
      estimatedTime |-> calculateTimeEstimate(testCount, modelCount),
      estimatedTokens |-> calculateTokenEstimate(testCount, modelCount)]

\* Array.prototype.slice(0, end) for an end that may be negative or beyond
\* the length
slice(arr, end) ==
  LET e == IF end < 0 THEN IF Len(arr) + end < 0 THEN 0 ELSE Len(arr) + end
           ELSE Min(end, Len(arr))
  IN SubSeq(arr, 1, e)

\* getPreview after the dry run has resolved with allTests
getPreview(formData, allTests) ==
  LET runType == formData.runType
      actualTestCount == Len(allTests)
      estimation == estimateRunConfiguration(runType, formData, actualTestCount)
      models == getModelsForRunType(runType, formData)
      filteredTests == IF runType = "smoke" \/ runType = "first"
                         THEN slice(allTests, estimation.testCount)
                         ELSE allTests
  IN [estimation |-> estimation,
      preview |-> [success |-> TRUE,
                   testCount |-> Len(filteredTests),
                   modelCount |-> estimation.modelCount,
                   models |-> models,
                   estimatedTime |-> estimation.estimatedTime,
                   estimatedTokens |-> estimation.estimatedTokens,
                   cacheEnabled |-> ~formData.noCache,
                   tests |-> filteredTests]]

\* The forms estimations are made for, validated or not.
PreviewForms ==
  [runType : RunTypes, modelName : {Undefined, "", "gemini"},
   pattern : {Undefined, "venue"}, count : {NoCount, 2, MaxTests + 1},
   noCache : BOOLEAN, verbose : {FALSE}, noHtml : {FALSE}]

InitPreview ==
  /\ serverUp = TRUE
  /\ apiKey = TRUE
  /\ handler = "service"
  /\ activeEvaluations = [id \in Ids |-> NoGen]
  /\ timer = [p \in Procs |-> FALSE]
  /\ procState = [p \in Procs |-> "none"]
  /\ sigterm = [p \in Procs |-> FALSE]
  /\ input \in [form : PreviewForms, tests : 0..MaxTests]
  /\ response = NoResponse

\* The dry run lists input.tests tests and getPreview builds the preview.
GetPreview ==
  /\ response.kind = "none"
  /\ response' = [NoResponse EXCEPT !.kind = "preview",
                    !.result = getPreview(input.form, [i \in 1..input.tests |-> i])]
  /\ UNCHANGED <<serverUp, apiKey, handler, input>>
  /\ UNCHANGED regVars

NextPreview == GetPreview

SpecPreview == InitPreview /\ [][NextPreview]_vars

\* ------------------------------------------------ run requests in flight
\* how many run requests are awaiting superValidate at a time
MaxClients == 2

Clients == 1..MaxClients

InitInFlight ==
  /\ serverUp = TRUE
  /\ apiKey = TRUE
  /\ handler = "service"
  /\ activeEvaluations = [id \in Ids |-> NoGen]
  /\ timer = [p \in Procs |-> FALSE]
  /\ procState = [p \in Procs |-> "none"]
  /\ sigterm = [p \in Procs |-> FALSE]
  /\ input = [pc |-> [c \in Clients |-> "idle"]]
  /\ response = NoResponse

\* A run request arrives: the action starts and awaits superValidate.
Submit(c) ==
  /\ serverUp
  /\ input.pc[c] = "idle"
  /\ input' = [input EXCEPT !.pc[c] = "validating"]
  /\ response' = [NoResponse EXCEPT !.kind = "submit"]
  /\ UNCHANGED <<serverUp, apiKey, handler>>
  /\ UNCHANGED regVars

\* The run action with an await between its capacity check and the spawn:
\* the request is resumed twice.
ResumeSuspending(c) ==
  /\ serverUp
  /\ IF input.pc[c] = "validating"
       THEN /\ canStartNew(Reg)
            /\ input' = [input EXCEPT !.pc[c] = "checked"]
            /\ response' = [NoResponse EXCEPT !.kind = "checked"]
            /\ UNCHANGED regVars
       ELSE /\ input.pc[c] = "checked"
            /\ FreshIds(Reg) # {}
            /\ input' = [input EXCEPT !.pc[c] = "idle"]
            /\ LET p == NewProc(Reg, CHOOSE i \in FreshIds(Reg) : TRUE)
                   spawned == spawn(Reg, p)
               IN IF ~canStartNew(spawned)
                    THEN /\ SetReg(Collect(kill(spawned, p)))
                         /\ response' = [NoResponse EXCEPT !.kind = "run", !.success = FALSE,
                                           !.id = IdOf(p),
                                           !.code = ErrorCodes.PROCESS_ERROR,
                                           !.message = <<"Max concurrent evaluations reached">>]
                    ELSE /\ SetReg(registerEntry(spawned, p))
                         /\ response' = [NoResponse EXCEPT !.kind = "run", !.id = IdOf(p)]
  /\ UNCHANGED <<serverUp, apiKey, handler>>

\* superValidate resolves and the rest of the run action runs in one turn.
Resume(c) ==
  /\ input.pc[c] = "validating"
  /\ \E req \in Requests : RunTurn(req)
  /\ input' = [input EXCEPT !.pc[c] = "idle"]
  /\ UNCHANGED <<serverUp, apiKey, handler>>

\* A child closes with code 0 and a results file; its run is answered.
ChildCloseInFlight(p) ==
  /\ serverUp
  /\ procState[p] = "running"
  /\ LET id == IdOf(p)
         listener == unregister([Reg EXCEPT !.state[p] = "closed"], id)
     IN SetReg(Collect(unregister(listener, id)))
  /\ response' = [closeResponse(handler, <<>>, 0, "valid") EXCEPT !.id = IdOf(p)]
  /\ UNCHANGED <<serverUp, apiKey, handler, input>>

NextInFlight ==
  \/ \E c \in Clients : Submit(c)
  \/ \E c \in Clients : Resume(c)
  \/ \E p \in Procs : ChildCloseInFlight(p)
  \/ \E p \in Procs : TimeoutFires(p)

SpecInFlight == InitInFlight /\ [][NextInFlight]_vars

\* ------------------------------------------- runs that share the results file
\* the stamp of a file nobody has written
NoStamp == 0

\* The form of the runs of this specification.
SmokeRequest ==
  [runType |-> "smoke", modelName |-> Undefined, pattern |-> Undefined, count |-> NoCount]

\* Every engine writes the one results file OUTPUT_JSON_PATH and a report of
\* its own into the reports directory.  input.outputJson is the time the
\* content of the results file was written at, input.reports the reports
\* directory, input.wrote the time each running child wrote its files at.
InitShared ==
  /\ serverUp = TRUE
  /\ apiKey = TRUE
  /\ handler = "service"
  /\ activeEvaluations = [id \in Ids |-> NoGen]
  /\ timer = [p \in Procs |-> FALSE]
  /\ procState = [p \in Procs |-> "none"]
  /\ sigterm = [p \in Procs |-> FALSE]
  /\ input = [outputJson |-> NoStamp, reports |-> {}, wrote |-> [p \in Procs |-> NoStamp]]
  /\ response = NoResponse

\* The engine of child p ends: it writes the results file and its report.
EngineWrites(p) ==
  /\ serverUp
  /\ procState[p] = "running"
  /\ input.wrote[p] = NoStamp
  /\ Cardinality(input.reports) < MaxStamp
  /\ LET now == Cardinality(input.reports) + 1
     IN input' = [outputJson |-> now,
                  reports |-> input.reports
                               \cup {[command |-> "smoke", stamp |-> now, ext |-> ".html"]},
                  wrote |-> [input.wrote EXCEPT ![p] = now]]
  /\ response' = [NoResponse EXCEPT !.kind = "engine"]
  /\ UNCHANGED <<serverUp, apiKey, handler>>
  /\ UNCHANGED regVars

\* parseResults as far as the files it reads go: the results file as it is
\* now, and the report latestReport picks from the directory as it is now.
summarySources(outputJson, reports) ==
  [results |-> outputJson,
   report |-> IF latestReport(reports) = <<>> THEN NoStamp
              ELSE latestReport(reports)[1].stamp]

\* Child p, whose engine has written, closes with code 0: the close handler
\* parses the results file.
ChildCloseShared(p) ==
  /\ serverUp
  /\ procState[p] = "running"
  /\ input.wrote[p] # NoStamp
  /\ LET id == IdOf(p)
         listener == unregister([Reg EXCEPT !.state[p] = "closed"], id)
     IN SetReg(Collect(unregister(listener, id)))
  /\ input' = [input EXCEPT !.wrote[p] = NoStamp]
  /\ response' = [closeResponse(handler, <<>>, 0, "valid") EXCEPT
                    !.id = IdOf(p),
                    !.result = [run |-> input.wrote[p],
                                summary |-> summarySources(input.outputJson, input.reports)]]
  /\ UNCHANGED <<serverUp, apiKey, handler>>

NextShared ==
  \/ Run(SmokeRequest)
  \/ \E p \in Procs : EngineWrites(p)
  \/ \E p \in Procs : ChildCloseShared(p)

SpecShared == InitShared /\ [][NextShared]_vars

\* ------------------------------------------------- runs whose timers do fire
InitTimers == InitRegistry

NextTimers ==
  \/ Run(SmokeRequest)
  \/ \E p \in Procs : ChildCloseInFlight(p)
  \/ \E p \in Procs : TimeoutFires(p)

\* setTimeout: a timeout that stays armed fires; a child need never close
\* and no request need ever arrive.
SpecTimers ==
  InitTimers /\ [][NextTimers]_vars /\ \A p \in Procs : WF_vars(TimeoutFires(p))

\* ------------------------------------------------- the wrapper's parseArgs
\* The arguments of the model that start with two dashes.
DashTokens == {CLI_FLAGS.NO_CACHE, CLI_FLAGS.VERBOSE, CLI_FLAGS.NO_HTML, "--grep"}

startsWithDashes(arg) == arg \in DashTokens

NoFlags == [dryRun |-> FALSE, noCache |-> FALSE, verbose |-> FALSE, noHtml |-> FALSE]

\* The while loop of parseArgs from position i on.
RECURSIVE parseLoop(_, _, _, _)
parseLoop(args, i, flags, commandArgs) ==
  IF i > Len(args) THEN [flags |-> flags, commandArgs |-> commandArgs]
  ELSE LET arg == args[i] IN
       IF arg = "dry-run"
         THEN parseLoop(args, i + 1, [flags EXCEPT !.dryRun = TRUE], commandArgs)
       ELSE IF arg = "--no-cache"
         THEN parseLoop(args, i + 1, [flags EXCEPT !.noCache = TRUE], commandArgs)
       ELSE IF arg = "--verbose" \/ arg = "-v"
         THEN parseLoop(args, i + 1, [flags EXCEPT !.verbose = TRUE], commandArgs)
       ELSE IF arg = "--no-html"
         THEN parseLoop(args, i + 1, [flags EXCEPT !.noHtml = TRUE], commandArgs)
       ELSE IF ~startsWithDashes(arg)
         THEN parseLoop(args, i + 1, flags, Append(commandArgs, arg))
       ELSE parseLoop(args, i + 1, flags, commandArgs)

\* parseArgs on process.argv.slice(2)
parseArgs(argv) ==
  LET parsed == parseLoop(argv, 1, NoFlags, <<>>)
  IN [command |-> IF parsed.commandArgs = <<>> THEN "" ELSE parsed.commandArgs[1],
      args |-> IF parsed.commandArgs = <<>> THEN <<>> ELSE Tail(parsed.commandArgs),
      flags |-> parsed.flags]

\* The validated forms handed to the wrapper.
WrapperForms ==
  {f \in [runType : RunTypes, modelName : {Undefined, "gemini"},
          pattern : {Undefined, "venue", "dry-run", "-v", "--verbose", "--grep"},
          count : {NoCount, 2},
          noCache : BOOLEAN, verbose : BOOLEAN, noHtml : BOOLEAN] : FormValid(f)}

InitRoundTrip ==
  /\ serverUp = TRUE
  /\ apiKey = TRUE
  /\ handler = "service"
  /\ activeEvaluations = [id \in Ids |-> NoGen]
  /\ timer = [p \in Procs |-> FALSE]
  /\ procState = [p \in Procs |-> "none"]
  /\ sigterm = [p \in Procs |-> FALSE]
  /\ input \in WrapperForms
  /\ response = NoResponse

\* The run action builds the command line and the wrapper it spawns parses it.
WrapperParses ==
  /\ response.kind = "none"
  /\ response' = [NoResponse EXCEPT !.kind = "parsed",
                    !.message = buildCommandArgs(input),
                    !.result = parseArgs(buildCommandArgs(input))]
  /\ UNCHANGED <<serverUp, apiKey, handler, input>>
  /\ UNCHANGED regVars

NextRoundTrip == WrapperParses

SpecRoundTrip == InitRoundTrip /\ [][NextRoundTrip]_vars

\* ------------------------------------------------------------------ claims
\* C1: whatever sequence of register, unregister, cancel, cancelAll, timeout
\* firings and process exits has run, the number of tracked evaluations is
\* at most maxConcurrent.
C1_CountWithinCapacity == getActiveCount(Reg) <= maxConcurrentEvaluations

\* C1 witness: a register call has just filled the last place.
C1_FifthRegistered ==
  /\ response.kind = "register"
  /\ response.success
  /\ getActiveCount(Reg) = maxConcurrentEvaluations

\* C2: a register call made while maxConcurrent evaluations are tracked
\* fails with the capacity error and leaves the tracked set and the armed
\* timers as they were.
C2_RegisterAtCapacityRejected ==
  [][\A id \in Ids :
       (getActiveCount(Reg) >= maxConcurrentEvaluations /\ response'.kind = "register"
          /\ CallRegister(id))
         => /\ ~response'.success
            /\ response'.message = <<"Max concurrent evaluations reached">>
            /\ UNCHANGED <<activeEvaluations, timer>>]_vars

\* C2 witness: a register call has been rejected with the registry full.
C2_RejectedAtCapacity ==
  /\ response.kind = "register"
  /\ ~response.success
  /\ getActiveCount(Reg) = maxConcurrentEvaluations

\* C3: canStartNew() is true exactly when fewer than maxConcurrent
\* evaluations are tracked: false once maxConcurrent are registered, true
\* again after any one of them is unregistered.
C3_CanStartNewIffBelowCapacity ==
  /\ canStartNew(Reg) <=> getActiveCount(Reg) < maxConcurrentEvaluations
  /\ getActiveCount(Reg) = maxConcurrentEvaluations
       => /\ ~canStartNew(Reg)
          /\ \A id \in Tracked(Reg) : canStartNew(unregister(Reg, id))

\* C3 witness: an unregister call has taken the registry from full to one
\* place free, its process still running.
C3_UnregisteredFromFull ==
  /\ response.kind = "unregister"
  /\ getActiveCount(Reg) = maxConcurrentEvaluations - 1
  /\ canStartNew(Reg)
  /\ \E p \in Loose(Reg) : procState[p] = "running" /\ ~sigterm[p] /\ ~timer[p]

\* C4: unregister is idempotent, and unregister of an id that is not
\* tracked changes nothing.
C4_UnregisterIdempotent ==
  \A id \in Ids :
    /\ unregister(unregister(Reg, id), id) = unregister(Reg, id)
    /\ id \notin Tracked(Reg) => unregister(Reg, id) = Reg

\* C4 witness: after an unregister call, an id that is not tracked still has
\* a running process and an armed timer that a second unregister would
\* have to leave alone.
C4_UntrackedWithLiveHandle ==
  /\ response.kind = "unregister"
  /\ \E p \in Procs : timer[p] /\ procState[p] = "running"
                        /\ activeEvaluations[IdOf(p)] = NoGen

\* C5: when the timeout of a tracked run fires before its process exits,
\* the process is sent SIGTERM and its id leaves the registry in that step;
\* if the registry was full, a register call is no longer blocked.
C5_TimeoutCancelsTrackedRun ==
  [][\A p \in Procs :
       (timer[p] /\ procState[p] = "running" /\ activeEvaluations[IdOf(p)] = GenOf(p)
          /\ response'.kind = "timeout" /\ TimeoutFires(p))
         => /\ sigterm'[p]
            /\ activeEvaluations'[IdOf(p)] = NoGen
            /\ ~timer'[p]
            /\ getActiveCount(Reg') = getActiveCount(Reg) - 1
            /\ canStartNew(Reg')]_vars

\* C5 witness: a timeout has fired with the registry full; the process it
\* signalled still runs and its id is gone.
C5_TimedOutFromFull ==
  /\ response.kind = "timeout"
  /\ getActiveCount(Reg) = maxConcurrentEvaluations - 1
  /\ \E p \in Procs : sigterm[p] /\ procState[p] = "running"
                        /\ activeEvaluations[IdOf(p)] = NoGen

\* C6: also when an id still tracked is registered again, no id is
\* tracked twice and every armed timeout belongs to a tracked id: a timeout
\* is cancelled when its id leaves the tracked set, so none fires for an id
\* unregistered since it was armed.
C6_NoTimerOutlivesItsId ==
  /\ \A id \in Ids : Cardinality({g \in Gens : activeEvaluations[id] = g}) <= 1
  /\ \A p \in Procs : timer[p] => activeEvaluations[IdOf(p)] # NoGen

\* C7: a run request rejected for its form, for the missing API key or for
\* capacity spawns no child and leaves the registry and the timers as
\* they were.
C7_RejectedRunHasNoEffect ==
  [][\A req \in Requests :
       ((~FormValid(req) \/ ~apiKey
           \/ getActiveCount(Reg) >= maxConcurrentEvaluations)
          /\ response'.kind = "run" /\ Run(req))
         => /\ ~response'.success
            /\ UNCHANGED regVars]_vars

\* C7 witness: a run request has been rejected for capacity.
C7_RunRejectedForCapacity ==
  /\ response.kind = "run"
  /\ ~response.success
  /\ response.message = <<"Maximum concurrent evaluations reached">>
  /\ getActiveCount(Reg) = maxConcurrentEvaluations

\* C8: when an admitted run ends in a spawn error, a non-zero exit or a
\* timeout, its id is no longer tracked at the moment the error response is
\* delivered.
C8_IdReleasedBeforeErrorResponse ==
  (response.kind \in {"close", "error"} /\ ~response.success)
    => activeEvaluations[response.id] = NoGen

\* C8 witness: the error response of a run killed by its timeout has been
\* delivered.
C8_KilledRunAnswered ==
  /\ response.kind = "close"
  /\ ~response.success
  /\ response.killed
  /\ response.id \in Ids

\* C9: the response of a run that its timeout killed is a timeout error,
\* which a generic process error is not.
C9_TimeoutSurfacedAsTimeoutError ==
  (response.kind = "close" /\ response.killed /\ ~response.success)
    => response.code = ErrorCodes.TIMEOUT_ERROR

\* C10: on exit code 0 the close handler attempts to parse the results file
\* and returns the outcome; on any other code it returns the captured,
\* redacted stderr, or the exit-code message when nothing was captured, and
\* does not parse the results file.
C10_ParseOnlyOnExitZero ==
  response.kind = "close"
    => IF input.code = 0
         THEN /\ response.parsed
              /\ response.success <=> input.out = "valid"
         ELSE /\ ~response.parsed
              /\ ~response.success
              /\ response.message =
                   IF input.chunks = <<>>
                     THEN <<"Process exited with code", CodeText(input.code)>>
                     ELSE sanitizeOutput(Concat(input.chunks))

\* C11: when the engine exits with code 100 (as with 0) the wrapper reports
\* no failure and the run action answers with the outcome of result
\* parsing; only the engine's other codes lead to the error answer.
C11_Code100IsCompletion ==
  response.kind = "close"
    => IF input.code \in {0, 100}
         THEN /\ main(input.code) = 0
              /\ response = [ResultsResponse(input.out) EXCEPT
                               !.code = errorCode(handler, @)]
         ELSE /\ main(input.code) # 0
              /\ ~response.success
              /\ response.code = errorCode(handler, ErrorCodes.PROCESS_ERROR)
              /\ response.message = sanitizeOutput(Concat(input.chunks)) \o <<"x">>

\* C11 witness: the engine exited with 100 and the run was answered with
\* the summary of the results file.
C11_Code100Parsed ==
  /\ response.kind = "close"
  /\ input.code = 100
  /\ response.parsed
  /\ response.success

\* C12: every failure of a run or preview request (validation, missing
\* credential, capacity, spawn failure, non-zero exit, timeout, result-parse
\* failure, failed dry run) is answered with a structured error that
\* carries a message; no exception leaves the request handler.
C12_EveryFailureAnswered ==
  /\ ~response.thrown
  /\ (response.kind \in {"run", "close", "error", "preview"} /\ ~response.success)
       => response.message # <<>>

\* C13: however the child's stderr is cut into data chunks, the error text
\* of a non-zero exit is the whole captured stderr with every match of the
\* API-key pattern replaced by [REDACTED], so that nothing of a key is left.
C13_RedactionIgnoresChunking ==
  (response.kind = "close" /\ input.code # 0 /\ input.chunks # <<>>)
    => response.message = sanitizeOutput(Concat(input.chunks))

C15_PositionalArguments ==
  response.kind = "args"
    => LET args == response.message
           flags == Cardinality({k \in {"noCache", "verbose", "noHtml"} : input[k]})
           positional == SubSeq(args, 2, Len(args) - flags)
       IN /\ args[1] = input.runType
          /\ positional =
               CASE input.runType = "model" -> <<input.modelName>>
                 [] input.runType = "pattern" -> <<input.pattern>>
                 [] input.runType = "first" ->
                      IF input.modelName \in {Undefined, ""}
                        THEN <<ToString(input.count)>>
                        ELSE <<ToString(input.count), "model", input.modelName>>
                 [] OTHER -> <<>>

\* C15 witness: arguments were built for a smoke form that holds a model
\* name, a pattern and a count, and for nothing but the run type.
C15_SmokeIgnoresFields ==
  /\ response.kind = "args"
  /\ input.runType = "smoke"
  /\ input.modelName = "gemini" /\ input.pattern = "venue" /\ input.count = 2
  /\ ~input.noCache /\ ~input.verbose /\ ~input.noHtml
  /\ response.message = <<"smoke">>

\* C16: in the arguments built for a validated form each of --no-cache,
\* --verbose and --no-html occurs once when its flag is enabled and not at
\* all when it is disabled, whatever the pattern is.
C16_FlagsOnceOrNever ==
  response.kind = "args"
    => LET args == response.message
           Occurrences(token) == Cardinality({i \in DOMAIN args : args[i] = token})
       IN /\ Occurrences(CLI_FLAGS.NO_CACHE) = (IF input.noCache THEN 1 ELSE 0)
          /\ Occurrences(CLI_FLAGS.VERBOSE) = (IF input.verbose THEN 1 ELSE 0)
          /\ Occurrences(CLI_FLAGS.NO_HTML) = (IF input.noHtml THEN 1 ELSE 0)

\* C17: on a results file holding a results array of per-test objects
\* parseResults returns success with totalTests the number of entries,
\* passedTests the number of entries whose success flag is true,
\* failedTests = totalTests - passedTests and
\* passRate = passedTests / totalTests * 100, which is 0 for no entries and
\* 100 when every entry passed; 20 entries with 17 passed give 85, 17, 3.
C17_SummaryCounts ==
  (response.kind = "close" /\ input.file.shape = "array" /\ ~ParseThrows(input.file))
    => LET results == input.file.results
           v == response.result.value
       IN /\ response.result.outcome = "value"
          /\ v.success /\ response.success
          /\ v.totalTests = Len(results)
          /\ v.passedTests = Cardinality({i \in DOMAIN results : results[i] = "pass"})
          /\ v.passedTests + v.failedTests = v.totalTests
          /\ 0 <= v.passedTests /\ v.passedTests <= v.totalTests
          /\ v.passRate.den > 0
          /\ v.passRate.num * v.totalTests = v.passedTests * 100 * v.passRate.den
          /\ v.totalTests = 0 => v.passRate.num = 0
          /\ (v.totalTests > 0 /\ v.passedTests = v.totalTests)
               => v.passRate = [num |-> 100, den |-> 1]
          /\ results = Scenario20
               => /\ v.passRate = [num |-> 85, den |-> 1]
                  /\ v.totalTests = 20 /\ v.passedTests = 17 /\ v.failedTests = 3

\* C17 witness: the results file of the scenario has been parsed.
C17_ScenarioParsed ==
  /\ response.kind = "close"
  /\ input.file.results = Scenario20
  /\ response.result.outcome = "value"
  /\ response.result.value.totalTests = 20

\* C18: parseResults returns null, without an error and without a result,
\* exactly when the results file does not exist; a run that exits with 0
\* while the file is absent is answered with the failure 'No results
\* found', not with a success.
C18_NullIffAbsent ==
  response.kind = "close"
    => /\ response.result.outcome = "null" <=> input.file.kind = "absent"
       /\ input.file.kind = "absent"
            => /\ ~response.success
               /\ ~response.thrown
               /\ response.message = <<"No results found">>

\* C18 witness: a run has exited with 0 without a results file and has been
\* answered.
C18_AbsentAnswered ==
  /\ response.kind = "close"
  /\ input.file.kind = "absent"
  /\ response.result.outcome = "null"
  /\ response.message = <<"No results found">>

\* C19: when the results file exists but is not JSON or does not hold a
\* results array of per-test objects, parseResults fails with a parse
\* error, the caller gets a structured error, and no successful summary is
\* reported.
C19_MalformedIsParseError ==
  (response.kind = "close" /\ input.file.kind # "absent"
     /\ (input.file.shape # "array" \/ ParseThrows(input.file)))
    => /\ ~response.success
       /\ ~response.thrown
       /\ response.code = errorCode(handler, ErrorCodes.PARSE_ERROR)
       /\ ~(response.result.outcome = "value" /\ response.result.value.success)

\* C20: the htmlReportPath of a summary names the report generated last
\* among the .html files the wrapper wrote to the reports directory,
\* whatever the run types of their runs; it is absent only when the
\* directory holds no .html file.
C20_LatestReport ==
  (response.kind = "close" /\ response.result.outcome = "value"
     /\ response.result.value.success)
    => LET path == response.result.value.htmlReportPath
           reports == {f \in input.dir : f.ext = ".html"}
       IN /\ path = <<>> <=> reports = {}
          /\ path # <<>>
               => /\ path[1] \in reports
                  /\ \A g \in reports : g.stamp <= path[1].stamp

\* C21: a run request passes validation only if its modelName is present and
\* a recognized model when runType is model, its pattern is present and not
\* empty when runType is pattern, and its count is present and greater than
\* 0 when runType is first; so the form of every run that was spawned and
\* registered satisfies these conditions.
C21_ValidatedFormsOnly ==
  LET Conditions(f) ==
        /\ f.runType = "model"
             => f.modelName \notin {Undefined, ""} /\ f.modelName \in MODEL_OPTIONS
        /\ f.runType = "pattern" => f.pattern \notin {Undefined, ""}
        /\ f.runType = "first" => f.count # NoCount /\ f.count > 0
  IN /\ FormValid(input) => Conditions(input)
     /\ (response.kind = "run" /\ (response.id # NoId \/ Tracked(Reg) # {}))
          => Conditions(input)

\* C21 witness: the run of a first form with a count and a model name has
\* been registered.
C21_FirstFormRegistered ==
  /\ response.kind = "run"
  /\ response.success
  /\ input.runType = "first" /\ input.count = 2 /\ input.modelName = "gemini"
  /\ Tracked(Reg) = {response.id}

\* C22: estimateTestCount returns 5 for smoke, actualTestCount for model and
\* full, the lesser of actualTestCount and 10 for pattern and retry, and for
\* first the count of the request, or 10 when it has none, for every request
\* and every actualTestCount from 0 on.
C22_EstimateTestCount ==
  response.kind = "preview"
    => LET runType == input.form.runType
           actual == input.tests
           estimate == response.result.estimation.testCount
       IN /\ runType = "smoke" => estimate = 5
          /\ runType \in {"model", "full"} => estimate = actual
          /\ runType \in {"pattern", "retry"}
               => estimate = (IF actual < 10 THEN actual ELSE 10)
          /\ runType = "first"
               => estimate = (IF input.form.count = NoCount THEN 10 ELSE input.form.count)

\* C22 witness: a pattern run over more than 10 tests has been estimated at
\* 10.
C22_PatternCapped ==
  /\ response.kind = "preview"
  /\ input.form.runType = "pattern"
  /\ input.tests > 10
  /\ response.result.estimation.testCount = 10

\* C30: for every validated request and every list of tests the dry run
\* returns, the preview of getPreview is consistent in itself: its
\* estimatedTime is its testCount * its modelCount * avgSecondsPerTest, its
\* estimatedTokens is its testCount * its modelCount * avgTokensPerTest, and
\* its modelCount is the length of its models list.
C30_PreviewConsistent ==
  (response.kind = "preview" /\ FormValid(input.form))
    => LET preview == response.result.preview
       IN /\ preview.estimatedTime
               = preview.testCount * preview.modelCount * avgSecondsPerTest
          /\ preview.estimatedTokens
               = preview.testCount * preview.modelCount * avgTokensPerTest
          /\ preview.modelCount = Len(preview.models)

\* C23: on SIGTERM or SIGINT the cleanup handler runs cancelAll: the process
\* of every id tracked at that moment is sent SIGTERM and its timeout is
\* cancelled, and no id is tracked when the server process exits.
C23_ShutdownCancelsAll ==
  [][(serverUp /\ ~serverUp')
       => /\ \A id \in Tracked(Reg) :
               /\ sigterm'[ProcOf(id, activeEvaluations[id])]
               /\ ~timer'[ProcOf(id, activeEvaluations[id])]
          /\ Tracked(Reg') = {}]_vars

\* C23 witness: the server has exited on a signal with the registry full;
\* the processes of all its entries were signalled and still run.
C23_ShutDownFromFull ==
  /\ ~serverUp
  /\ response.kind = "shutdown"
  /\ Tracked(Reg) = {}
  /\ Cardinality({p \in Procs : sigterm[p] /\ procState[p] = "running" /\ ~timer[p]})
       >= maxConcurrentEvaluations

C25_CheckedRequestRegisters ==
  response.kind = "run"
    => /\ response.message # <<"Max concurrent evaluations reached">>
       /\ response.code # ErrorCodes.PROCESS_ERROR
       /\ response.id # NoId
            => /\ response.success
               /\ activeEvaluations[response.id] # NoGen
               /\ procState[ProcOf(response.id, activeEvaluations[response.id])] = "running"
               /\ ~sigterm[ProcOf(response.id, activeEvaluations[response.id])]

\* C25 witness: a request has been registered into the last slot while
\* another request was still awaiting its validation.
C25_LastSlotTakenWhileOtherWaits ==
  /\ response.kind = "run"
  /\ response.success
  /\ getActiveCount(Reg) = maxConcurrentEvaluations
  /\ \E c \in Clients : input.pc[c] = "validating"

\* C26: with several runs in flight, the summary answered for a run that
\* closed with code 0 is made from the results file and the report that
\* this run wrote, not from those of a run that wrote later.
C26_SummaryOfOwnRun ==
  (response.kind = "close" /\ response.success)
    => /\ response.result.summary.results = response.result.run
       /\ response.result.summary.report = response.result.run

\* C27: whatever run submissions, timeout firings and process exits have
\* happened, the child processes the run action has spawned and that have
\* not exited number at most maxConcurrent.
C27_LiveChildrenWithinCapacity ==
  Cardinality({p \in Procs : procState[p] = "running"}) <= maxConcurrentEvaluations

\* C28: given that an armed timeout fires in the end, every id that is
\* tracked is removed from the registry at some later time, also when its
\* process never closes; so a full registry has a free slot again at some
\* later time, and a run request refused for capacity alone can be admitted.
\* (From every state on, a state without the id is reached: always eventually.)
C28_EveryIdReleased ==
  /\ \A id \in Ids : []<>(activeEvaluations[id] = NoGen)
  /\ []<>canStartNew(Reg)

\* C28 witness: the timeout of a run has fired with the registry full; its
\* process has not closed, and the slot is free for the next request.
C28_SlotFreedWithoutExit ==
  /\ response.kind = "timeout"
  /\ canStartNew(Reg)
  /\ Cardinality({p \in Procs : procState[p] = "running"}) = maxConcurrentEvaluations
  /\ \E p \in Procs : procState[p] = "running" /\ sigterm[p] /\ ~timer[p]

\* C29: for every validated form, parseArgs of the wrapper applied to the
\* arguments buildCommandArgs built gives the form back: the command is the
\* run type, the remaining positional arguments are those built (the model
\* name, the pattern, or the count with 'model' and the name if there is
\* one), dryRun is false, and noCache, verbose and noHtml are the flags of
\* the form.
C29_ParseArgsRecoversForm ==
  response.kind = "parsed"
    => LET parsed == response.result
       IN /\ parsed.command = input.runType
          /\ parsed.args =
               CASE input.runType = "model" -> <<input.modelName>>
                 [] input.runType = "pattern" -> <<input.pattern>>
                 [] input.runType = "first" ->
                      IF input.modelName \in {Undefined, ""}
                        THEN <<ToString(input.count)>>
                        ELSE <<ToString(input.count), "model", input.modelName>>
                 [] OTHER -> <<>>
          /\ ~parsed.flags.dryRun
          /\ parsed.flags.noCache = input.noCache
          /\ parsed.flags.verbose = input.verbose
          /\ parsed.flags.noHtml = input.noHtml

====
